---- MODULE Spec2Model ----
(***************************************************************************)
(* A model of src/src/scraping_arxiv.py: the rate limiter that gates the   *)
(* Semantic Scholar calls, the version discovery, the shared statistics    *)
(* counters and the per-paper orchestration run by the batch runner.       *)
(*                                                                         *)
(* Time is counted in ticks; TickRate ticks make one second.  The 300 s    *)
(* window and the 200-call quota of the source are scaled down (window,    *)
(* SS_REQUESTS_PER_5_MIN) so that a full window is reached within the      *)
(* horizon of the model.                                                   *)
(***************************************************************************)
EXTENDS Integers, Sequences, FiniteSets, TLC

\* ------------------------------------------------------------------ bounds
TickRate == 4                \* ticks per second
Horizon == 9                 \* ticks of wall-clock time explored
MaxCalls == 4                \* calls of wait_if_needed one thread makes in a run
MaxConcurrentCalls == 3      \* calls made in a run of several threads
NCallers == 2                \* threads that may call wait_if_needed
NStatThreads == 2            \* threads that update the statistics at once
MaxIncrements == 3           \* counter updates made in one run
NPapers == 2                 \* ids handed to scrape_papers
MaxFaults == 1               \* filesystem operations that fail in one run
NVersions == 3               \* revisions handed to _download_versions_concurrently

SS_REQUESTS_PER_5_MIN == 2   \* the quota, scaled down (200 in the source)
window == 6                  \* the window in ticks, scaled down (300.0 s in the source)

\* --------------------------------------------------------------- constants
max_workers == 2             \* the max_workers given to ArxivScraper (--workers 2)
SS_REQUESTS_PER_SECOND == 2
MAX_VERSION_TO_CHECK == 8
VERSION_HEAD_THREADS == 6
DEFAULT_DOWNLOAD_WORKERS == 4
total == 2                   \* Retry(total=2, ...) of the session's adapter

Max(a, b) == IF a >= b THEN a ELSE b

per_second == SS_REQUESTS_PER_SECOND
per_5_min == SS_REQUESTS_PER_5_MIN

\* 1.0 / max(1, self.per_second), in ticks
MinSpacing == TickRate \div Max(1, per_second)

\* time.time() at construction is far beyond both the window and the
\* spacing: the clock starts at Epoch, last_second at 0.0.
Epoch == window + MinSpacing

Callers == 1..NCallers

VARIABLES
    clock,        \* time.time()
    callers,      \* the threads that call the limiter in this run
    last_second,  \* RateLimiter.last_second
    times,        \* RateLimiter.times (deque, oldest first)
    pc,           \* per caller: the line of wait_if_needed it is at
    now,          \* per caller: the local variable now
    wake,         \* per caller: the time its time.sleep() ends
    calls,        \* invocations started so far
    budget,       \* invocations this run makes at most
    hist,         \* every timestamp appended to times, in order
    passed        \* every value written to last_second, in order

VARIABLES
    dvpc,         \* _discover_all_versions: "off", "probing", "recheck", "done"
    completed,    \* the revisions whose probe future has completed
    results,      \* the local list results
    recheck,      \* what the separate probe of revision 1 answered, if made
    ret           \* the list _discover_all_versions returns

VARIABLES
    stats,        \* ArxivScraper.stats, the counters modelled
    reg,          \* per thread: the counter value its += has loaded
    statKey,      \* per thread: the counter its += is updating
    events,       \* per counter: the events that were to be counted
    incs          \* counter updates started so far

VARIABLES
    arxiv_ids,      \* the list given to scrape_papers; no action changes it
    ppc,            \* per paper: where scrape_single_paper is
    refsTask,       \* per paper: fut_refs
    metaTask,       \* per paper: fut_meta
    venue_from_refs,\* per paper: the local venue_from_refs
    references,     \* per paper: the local references ("empty" or "some" entries)
    refsWait,       \* per paper: how the wait on fut_refs ended
    meta_result,    \* per paper: the local meta_result
    metaCalls,      \* per paper: calls of _fetch_metadata_with_complete_versions
    firstFetch,     \* per paper: how the wait on fut_meta ended
    retryOverride,  \* per paper: the venue_override the retry was given
    metadata_json,  \* per paper: metadata.json on disk
    references_json,\* per paper: references.json on disk
    downloading,    \* per paper: the downloads were started
    successful_versions, \* per paper: the local successful_versions (-1: not set)
    raised,         \* per paper: the exception scrape_single_paper is raising
    faults,         \* filesystem operations that have failed so far
    outcome,        \* per paper: what _scrape_single_paper_safe returned
    collected,      \* the futures as_completed has yielded, in that order
    reported        \* how often the statistics were emitted

VARIABLES
    dlpc,         \* _download_versions_concurrently: "off", "running", "returned"
    vTask,        \* per revision: its task is "queued", "running", "done" or "taken"
    vCase,        \* per revision: what happened to its download and extraction
    vOrder,       \* the revisions in the order as_completed yielded their futures
    dlCount,      \* the local successful_versions of _download_versions_concurrently
    dlRet,        \* what _download_versions_concurrently returned (-1: nothing yet)
    tarFile       \* per revision: the file at tar_path, "absent", "partial" or "complete"

VARIABLES
    rawId,        \* an id as given, a sequence of tokens
    bareId,       \* the same id without its revision suffix
    idpc,         \* "off", "start", "once", "twice", "done"
    once,         \* format_yymm_id(rawId)
    twice,        \* format_yymm_id(format_yymm_id(rawId))
    bareOnce      \* format_yymm_id(bareId)

VARIABLES
    cpc,          \* per call of _ss_get_cached: where it is
    cache,        \* the lru_cache of _ss_get_cached: per key, "absent" or the result
    waits,        \* per call: calls of wait_if_needed it has made
    sends,        \* per call: requests sent to the service on its behalf
    resp,         \* per call: the status of the response the session returned
    saw429,       \* per call: a request of it was answered 429
    cres,         \* per call: what _ss_get_cached returned
    creg          \* per call: the counter value its += has loaded

VARIABLES
    frData,       \* what _ss_get_cached gives _fetch_references_and_paper_venue
    frpc,         \* "call", "returned" or "raised"
    frReferences, \* the mapping it returns
    frVenue       \* the venue it returns

VARIABLES
    expc,         \* the extraction for one raw reference: "off", "call", "done"
    exRef,        \* the raw reference
    arxiv_ref_id, \* what _extract_arxiv_id_comprehensive returned (<<>> is None)
    exKept        \* the reference went on to the building of its record

VARIABLES
    vnpc,              \* the venue of one paper: "off", "join_refs", "join_meta", "reconcile", "saved"
    refsData,          \* the response to the request of the reference fetch
    metaData,          \* the response to the request of the metadata fetch
    journal_ref,       \* paper.journal_ref of the arXiv entry
    paper_venue,       \* venue_from_refs, the venue the reference fetch returned
    venue_override,    \* the venue_override of the metadata fetch whose result is used
    meta_venue,        \* metadata['publication_venue'] as that fetch returned it
    publication_venue  \* publication_venue as written to metadata.json

VARIABLES
    fpc,                 \* metadata of one paper: "off", "join_meta", "checked", "failed", "save", "downloaded"
    discovered,          \* per invocation: what _discover_all_versions returns to it
    found,               \* per invocation: arXiv has the entry and nothing raises
    fetched_meta,        \* meta_result: 0 is None, else the invocation that made it
    versions_info,       \* the local versions_info of scrape_single_paper
    persisted_meta,      \* the metadata in metadata.json: 0 is none
    downloaded_versions  \* the versions handed to _download_versions_concurrently

rlVars == <<clock, callers, last_second, times, pc, now, wake, calls, budget, hist, passed>>
dvVars == <<dvpc, completed, results, recheck, ret>>

stVars == <<reg, statKey, events, incs>>
dlVars == <<dlpc, vTask, vCase, vOrder, dlCount, dlRet, tarFile>>
idVars == <<rawId, bareId, idpc, once, twice, bareOnce>>
ssVars == <<cpc, cache, waits, sends, resp, saw429, cres, creg>>
frVars == <<frData, frpc, frReferences, frVenue>>
vnVars == <<vnpc, refsData, metaData, journal_ref, paper_venue, venue_override, meta_venue,
            publication_venue>>
exVars == <<expc, exRef, arxiv_ref_id, exKept>>
mvVars == <<fpc, discovered, found, fetched_meta, versions_info, persisted_meta,
            downloaded_versions>>
bVars == <<ppc, refsTask, metaTask, venue_from_refs, references, refsWait, meta_result,
           metaCalls, firstFetch, retryOverride, metadata_json, references_json,
           downloading, successful_versions, raised, faults, outcome, collected, reported>>

vars == <<rlVars, dvVars, stats, stVars, arxiv_ids, bVars, dlVars, idVars, ssVars, frVars, mvVars, exVars, vnVars>>

notRL == <<dvVars, stats, stVars, arxiv_ids, bVars, dlVars, idVars, ssVars, frVars, mvVars, exVars, vnVars>>
notDV == <<rlVars, stats, stVars, arxiv_ids, bVars, dlVars, idVars, ssVars, frVars, mvVars, exVars, vnVars>>
notST == <<rlVars, dvVars, arxiv_ids, bVars, dlVars, idVars, ssVars, frVars, mvVars, exVars, vnVars>>
notB == <<rlVars, dvVars, stVars, arxiv_ids, dlVars, idVars, ssVars, frVars, mvVars, exVars, vnVars>>
notDL == <<rlVars, dvVars, stats, stVars, arxiv_ids, bVars, idVars, ssVars, frVars, mvVars, exVars, vnVars>>
notId == <<rlVars, dvVars, stats, stVars, arxiv_ids, bVars, dlVars, ssVars, frVars, mvVars, exVars, vnVars>>
notSS == <<rlVars, dvVars, stVars, arxiv_ids, bVars, dlVars, idVars, frVars, mvVars, exVars, vnVars>>
notFR == <<rlVars, dvVars, stVars, arxiv_ids, bVars, dlVars, idVars, ssVars, mvVars, exVars, vnVars>>
notMV == <<rlVars, dvVars, stVars, arxiv_ids, bVars, dlVars, idVars, ssVars, frVars, exVars,
           vnVars>>
notVN == <<rlVars, dvVars, stats, stVars, arxiv_ids, bVars, dlVars, idVars, ssVars, frVars,
           mvVars, exVars>>
notEX == <<rlVars, dvVars, stats, stVars, arxiv_ids, bVars, dlVars, idVars, ssVars, frVars,
           mvVars, vnVars>>

\* ------------------------------------------------------------ RateLimiter

\* line 129: now - self.last_second < 1.0 / max(1, self.per_second)
TooSoon(n, last) == n - last < MinSpacing

\* line 130: max(0.0, (1.0 / max(1, self.per_second)) - (now - self.last_second))
SpacingSleep(n, last) == Max(0, MinSpacing - (n - last))

\* line 133: self.times and self.times[0] < now - self.window
Expired(ts, n) == ts # <<>> /\ Head(ts) < n - window

\* line 135: len(self.times) >= self.per_5_min
WindowFull(ts) == Len(ts) >= per_5_min

\* line 136: self.times[0] + self.window - now
WindowWait(ts, n) == Head(ts) + window - n

RLInit(cs, n) ==
    /\ clock = Epoch
    /\ callers = cs
    /\ last_second = 0
    /\ times = <<>>
    /\ pc = [t \in Callers |-> "idle"]
    /\ now = [t \in Callers |-> 0]
    /\ wake = [t \in Callers |-> 0]
    /\ calls = 0
    /\ budget = n
    /\ hist = <<>>
    /\ passed = <<>>

\* no thread uses the limiter
RLOff == RLInit({}, 0)

\* The wall clock advances, whatever the threads are doing.
Tick ==
    /\ clock < Epoch + Horizon
    /\ clock' = clock + 1
    /\ UNCHANGED <<callers, budget, last_second, times, pc, now, wake, calls, hist, passed>>
    /\ UNCHANGED notRL

\* A caller (ArxivScraper._ss_get_cached, line 200) enters wait_if_needed;
\* line 128: now = time.time()
Call(t) ==
    /\ t \in callers
    /\ pc[t] = "idle"
    /\ calls < budget
    /\ calls' = calls + 1
    /\ now' = [now EXCEPT ![t] = clock]
    /\ pc' = [pc EXCEPT ![t] = "l129"]
    /\ UNCHANGED <<clock, callers, budget, last_second, times, wake, hist, passed>>
    /\ UNCHANGED notRL

\* lines 129-130: the spacing check, and the sleep it may start
CheckSpacing(t) ==
    /\ pc[t] = "l129"
    /\ IF TooSoon(now[t], last_second)
       THEN /\ wake' = [wake EXCEPT ![t] = clock + SpacingSleep(now[t], last_second)]
            /\ pc' = [pc EXCEPT ![t] = "sleep130"]
       ELSE /\ pc' = [pc EXCEPT ![t] = "l131"]
            /\ UNCHANGED wake
    /\ UNCHANGED <<clock, callers, budget, last_second, times, now, calls, hist, passed>>
    /\ UNCHANGED notRL

\* line 130: time.sleep returns once the requested time has gone by
WakeSpacing(t) ==
    /\ pc[t] = "sleep130"
    /\ clock >= wake[t]
    /\ wake' = [wake EXCEPT ![t] = 0]
    /\ pc' = [pc EXCEPT ![t] = "l131"]
    /\ UNCHANGED <<clock, callers, budget, last_second, times, now, calls, hist, passed>>
    /\ UNCHANGED notRL

\* line 131: self.last_second = time.time()
SetLastSecond(t) ==
    /\ pc[t] = "l131"
    /\ last_second' = clock
    /\ passed' = Append(passed, clock)
    /\ pc' = [pc EXCEPT ![t] = "l132"]
    /\ UNCHANGED <<clock, callers, budget, times, now, wake, calls, hist>>
    /\ UNCHANGED notRL

\* line 132: now = time.time()
ReadNow(t) ==
    /\ pc[t] = "l132"
    /\ now' = [now EXCEPT ![t] = clock]
    /\ pc' = [pc EXCEPT ![t] = "l133"]
    /\ UNCHANGED <<clock, callers, budget, last_second, times, wake, calls, hist, passed>>
    /\ UNCHANGED notRL

\* line 133: the loop condition of the purge
PurgeTest(t) ==
    /\ pc[t] = "l133"
    /\ pc' = [pc EXCEPT ![t] = IF Expired(times, now[t]) THEN "l134" ELSE "l135"]
    /\ UNCHANGED <<clock, callers, budget, last_second, times, now, wake, calls, hist, passed>>
    /\ UNCHANGED notRL

\* line 134: self.times.popleft(); IndexError on an empty deque
PurgePop(t) ==
    /\ pc[t] = "l134"
    /\ IF times = <<>>
       THEN /\ pc' = [pc EXCEPT ![t] = "IndexError"]
            /\ UNCHANGED times
       ELSE /\ times' = Tail(times)
            /\ pc' = [pc EXCEPT ![t] = "l133"]
    /\ UNCHANGED <<clock, callers, budget, last_second, now, wake, calls, hist, passed>>
    /\ UNCHANGED notRL

\* line 135: the quota check
CheckWindow(t) ==
    /\ pc[t] = "l135"
    /\ pc' = [pc EXCEPT ![t] = IF WindowFull(times) THEN "l136" ELSE "l139"]
    /\ UNCHANGED <<clock, callers, budget, last_second, times, now, wake, calls, hist, passed>>
    /\ UNCHANGED notRL

\* lines 136-138: wait = self.times[0] + self.window - now; time.sleep(wait).
\* self.times[0] raises IndexError on an empty deque, time.sleep raises
\* ValueError on a negative length.
WindowSleep(t) ==
    /\ pc[t] = "l136"
    /\ IF times = <<>>
       THEN /\ pc' = [pc EXCEPT ![t] = "IndexError"]
            /\ UNCHANGED wake
       ELSE IF WindowWait(times, now[t]) < 0
       THEN /\ pc' = [pc EXCEPT ![t] = "ValueError"]
            /\ UNCHANGED wake
       ELSE /\ wake' = [wake EXCEPT ![t] = clock + WindowWait(times, now[t])]
            /\ pc' = [pc EXCEPT ![t] = "sleep138"]
    /\ UNCHANGED <<clock, callers, budget, last_second, times, now, calls, hist, passed>>
    /\ UNCHANGED notRL

\* line 138: time.sleep returns
WakeWindow(t) ==
    /\ pc[t] = "sleep138"
    /\ clock >= wake[t]
    /\ wake' = [wake EXCEPT ![t] = 0]
    /\ pc' = [pc EXCEPT ![t] = "l139"]
    /\ UNCHANGED <<clock, callers, budget, last_second, times, now, calls, hist, passed>>
    /\ UNCHANGED notRL

\* line 139: self.times.append(time.time()), and the call returns (its
\* locals are gone)
Record(t) ==
    /\ pc[t] = "l139"
    /\ times' = Append(times, clock)
    /\ hist' = Append(hist, clock)
    /\ now' = [now EXCEPT ![t] = 0]
    /\ pc' = [pc EXCEPT ![t] = "idle"]
    /\ UNCHANGED <<clock, callers, budget, last_second, wake, calls, passed>>
    /\ UNCHANGED notRL

wait_if_needed(t) ==
    \/ Call(t)
    \/ CheckSpacing(t)
    \/ WakeSpacing(t)
    \/ SetLastSecond(t)
    \/ ReadNow(t)
    \/ PurgeTest(t)
    \/ PurgePop(t)
    \/ CheckWindow(t)
    \/ WindowSleep(t)
    \/ WakeWindow(t)
    \/ Record(t)

RLNext == Tick \/ \E t \in Callers : wait_if_needed(t)


\* ----------------------------------------------------- version discovery

\* line 427: max_v = min(MAX_VERSION_TO_CHECK, 20)
max_v == IF MAX_VERSION_TO_CHECK <= 20 THEN MAX_VERSION_TO_CHECK ELSE 20

Range(seq) == {seq[i] : i \in 1..Len(seq)}

MaxOf(S) == CHOOSE m \in S : \A x \in S : x <= m

\* list.sort() (line 439), as an insertion sort
RECURSIVE Insert(_, _)
Insert(x, seq) ==
    IF seq = <<>> THEN <<x>>
    ELSE IF x <= Head(seq) THEN <<x>> \o seq
    ELSE <<Head(seq)>> \o Insert(x, Tail(seq))

RECURSIVE Sort(_)
Sort(seq) == IF seq = <<>> THEN <<>> ELSE Insert(Head(seq), Sort(Tail(seq)))

\* a loop that skips a missing revision instead of stopping at it
RECURSIVE ContiguousNoBreak(_, _, _)
ContiguousNoBreak(rs, v, acc) ==
    IF v > MaxOf(Range(rs)) THEN acc
    ELSE IF v \in Range(rs) THEN ContiguousNoBreak(rs, v + 1, Append(acc, v))
    ELSE ContiguousNoBreak(rs, v + 1, acc)

\* lines 441-446: for v in range(1, max(results)+1): append v while it is
\* in results, break at the first one that is not
RECURSIVE Contiguous(_, _, _)
Contiguous(rs, v, acc) ==
    IF v > MaxOf(Range(rs)) THEN acc
    ELSE IF v \in Range(rs) THEN Contiguous(rs, v + 1, Append(acc, v))
    ELSE acc

DVOff ==
    /\ dvpc = "off"
    /\ completed = {}
    /\ results = <<>>
    /\ recheck = "none"
    /\ ret = <<>>

\* lines 428-430: the probes of 1..max_v are submitted
DVInit ==
    /\ dvpc = "probing"
    /\ completed = {}
    /\ results = <<>>
    /\ recheck = "none"
    /\ ret = <<>>

\* lines 431-438: as_completed yields the future of revision v, which
\* _check_version_exists answered with exists (False when the request
\* failed, lines 423-424).  The pool runs VERSION_HEAD_THREADS probes at a
\* time, in the order submitted.
ProbeCompleted(v, exists) ==
    /\ dvpc = "probing"
    /\ v \notin completed
    /\ v <= VERSION_HEAD_THREADS + Cardinality(completed)
    /\ completed' = completed \cup {v}
    /\ results' = IF exists THEN Append(results, v) ELSE results
    /\ UNCHANGED <<dvpc, recheck, ret>>
    /\ UNCHANGED notDV

\* lines 439-448: all futures are in; sort, take the run from 1, return it
\* when it is not empty
TakeContiguous ==
    /\ dvpc = "probing"
    /\ completed = 1..max_v
    /\ results' = Sort(results)
    /\ LET contiguous == IF results' # <<>> THEN Contiguous(results', 1, <<>>) ELSE <<>>
       IN IF contiguous # <<>>
          THEN ret' = contiguous /\ dvpc' = "done"
          ELSE ret' = ret /\ dvpc' = "recheck"
    /\ UNCHANGED <<completed, recheck>>
    /\ UNCHANGED notDV

\* lines 449-451: the separate probe of revision 1
RecheckFirst(exists) ==
    /\ dvpc = "recheck"
    /\ recheck' = IF exists THEN "true" ELSE "false"
    /\ ret' = IF exists THEN <<1>> ELSE <<>>
    /\ dvpc' = "done"
    /\ UNCHANGED <<completed, results>>
    /\ UNCHANGED notDV

DVNext ==
    \/ \E v \in 1..max_v, exists \in BOOLEAN : ProbeCompleted(v, exists)
    \/ TakeContiguous
    \/ \E exists \in BOOLEAN : RecheckFirst(exists)


\* ------------------------------------------------------------- statistics

\* lines 171-196: the counters of self.stats that are modelled
StatsInit ==
    stats = [papers_attempted |-> 0, papers_successful |-> 0, papers_failed |-> 0,
             ss_requests_made |-> 0, ss_rate_limit_hits |-> 0, ss_errors |-> 0,
             references_found |-> 0, references_with_arxiv |-> 0,
             version_checks |-> 0, versions_downloaded |-> 0]

\* the counters that threads of the worker pools update
SharedKeys == {"ss_requests_made", "version_checks", "versions_downloaded"}

StatThreads == 1..NStatThreads

STInit ==
    /\ reg = [t \in StatThreads |-> 0]
    /\ statKey = [t \in StatThreads |-> "none"]
    /\ events = [k \in SharedKeys |-> 0]
    /\ incs = 0

\* self.stats[k] += 1 is a load, an add and a store, with no lock around
\* them: the load
LoadCounter(t, k) ==
    /\ statKey[t] = "none"
    /\ incs < MaxIncrements
    /\ incs' = incs + 1
    /\ events' = [events EXCEPT ![k] = @ + 1]
    /\ reg' = [reg EXCEPT ![t] = stats[k]]
    /\ statKey' = [statKey EXCEPT ![t] = k]
    /\ UNCHANGED stats
    /\ UNCHANGED notST

\* line 201, in the thread of a reference task, of a metadata task or of a
\* paper (the retry): a request is about to be sent
RequestMade(t) == LoadCounter(t, "ss_requests_made")

\* line 421, in a thread of the probe pool: a probe was answered
ProbeAnswered(t) == LoadCounter(t, "version_checks")

\* line 472, in the thread of a paper: a revision was downloaded
VersionDownloaded(t) == LoadCounter(t, "versions_downloaded")

\* the store that ends the += (lines 201, 421, 472)
StoreCounter(t) ==
    /\ statKey[t] # "none"
    /\ stats' = [stats EXCEPT ![statKey[t]] = reg[t] + 1]
    /\ statKey' = [statKey EXCEPT ![t] = "none"]
    /\ reg' = [reg EXCEPT ![t] = 0]
    /\ UNCHANGED <<events, incs>>
    /\ UNCHANGED notST

STNext ==
    \E t \in StatThreads :
        \/ RequestMade(t)
        \/ ProbeAnswered(t)
        \/ VersionDownloaded(t)
        \/ StoreCounter(t)

\* ------------------------------------------------- scrape_papers and below

Papers == 1..NPapers

Min(a, b) == IF a <= b THEN a ELSE b

\* line 577: min(self.max_workers, max(1, len(arxiv_ids)))
PoolSize == Min(max_workers, Max(1, NPapers))

\* the papers a worker of the pool is busy with
Running == {p \in Papers : ppc[p] \notin {"queued", "returned"}}

\* a wrapper whose except branch answers True
SafeResultAlwaysTrue(exc) == TRUE

\* lines 598-603: _scrape_single_paper_safe
SafeResult(exc) == IF exc THEN FALSE ELSE TRUE

\* a collection that counts only the successes
CountedNoElse(st, ok) ==
    [st EXCEPT !.papers_attempted = @ + 1,
               !.papers_successful = IF ok THEN @ + 1 ELSE @]

\* lines 582-588: the counting of one outcome
Counted(st, ok) ==
    [st EXCEPT !.papers_attempted = @ + 1,
               !.papers_successful = IF ok THEN @ + 1 ELSE @,
               !.papers_failed = IF ok THEN @ ELSE @ + 1]

\* a retry that forgets the venue
RetryOverrideNone(venue) == "none"

\* line 535: venue_override=venue_from_refs
RetryOverride(venue) == venue

\* a handler that catches the timeout of the wait only
RefsWaitCaughtTimeoutOnly(kind) == kind = "timeout"

\* line 521: except Exception catches the timeout of the wait ("timeout")
\* and whatever the task raised ("raised")
RefsWaitCaught(kind) == kind \in {"timeout", "raised"}

BInit ==
    /\ ppc = [p \in Papers |-> "queued"]
    /\ refsTask = [p \in Papers |-> "idle"]
    /\ metaTask = [p \in Papers |-> "idle"]
    /\ venue_from_refs = [p \in Papers |-> "none"]
    /\ references = [p \in Papers |-> "unset"]
    /\ refsWait = [p \in Papers |-> "unset"]
    /\ meta_result = [p \in Papers |-> "unset"]
    /\ metaCalls = [p \in Papers |-> 0]
    /\ firstFetch = [p \in Papers |-> "unset"]
    /\ retryOverride = [p \in Papers |-> "unset"]
    /\ metadata_json = [p \in Papers |-> "absent"]
    /\ references_json = [p \in Papers |-> "absent"]
    /\ downloading = [p \in Papers |-> FALSE]
    /\ successful_versions = [p \in Papers |-> -1]
    /\ raised = [p \in Papers |-> "none"]
    /\ faults = 0
    /\ outcome = [p \in Papers |-> "pending"]
    /\ collected = <<>>
    /\ reported = 0

\* lines 577-578: a worker of the pool is free for the next id
WorkerTakes(p) ==
    /\ ppc[p] = "queued"
    /\ \A q \in Papers : q < p => ppc[q] # "queued"
    /\ Cardinality(Running) < PoolSize

\* lines 577-578 and 501-517: a worker of the pool takes the next id and
\* submits the reference fetch and the metadata fetch
StartPaper(p) ==
    /\ WorkerTakes(p)
    /\ ppc' = [ppc EXCEPT ![p] = "join_refs"]
    /\ refsTask' = [refsTask EXCEPT ![p] = "running"]
    /\ metaTask' = [metaTask EXCEPT ![p] = "running"]
    /\ metaCalls' = [metaCalls EXCEPT ![p] = 1]
    /\ UNCHANGED <<venue_from_refs, references, refsWait, meta_result, firstFetch,
                   retryOverride, metadata_json, references_json, downloading,
                   successful_versions, raised, faults, outcome, collected, reported>>
    /\ UNCHANGED <<stats, notB>>

\* lines 501-508: ensure_dir(paper_dir) raises (OSError), before any fetch
StartFails(p) ==
    /\ WorkerTakes(p)
    /\ faults < MaxFaults
    /\ faults' = faults + 1
    /\ raised' = [raised EXCEPT ![p] = "OSError"]
    /\ ppc' = [ppc EXCEPT ![p] = "exit"]
    /\ UNCHANGED <<refsTask, metaTask, venue_from_refs, references, refsWait, meta_result,
                   metaCalls, firstFetch, retryOverride, metadata_json, references_json,
                   downloading, successful_versions, outcome, collected, reported>>
    /\ UNCHANGED <<stats, notB>>

\* lines 220-260: the submitted _fetch_references_and_paper_venue ends after
\* the wait on it has timed out.  (A task that ends while it is waited for
\* is seen by nobody before fut_refs.result() returns: JoinRefs.)
RefsFinish(p) ==
    /\ refsTask[p] = "running"
    /\ ppc[p] # "join_refs"
    /\ refsTask' = [refsTask EXCEPT ![p] = "done"]
    /\ UNCHANGED <<ppc, metaTask, venue_from_refs, references, refsWait, meta_result,
                   metaCalls, firstFetch, retryOverride, metadata_json, references_json,
                   downloading, successful_versions, raised, faults, outcome, collected,
                   reported>>
    /\ UNCHANGED <<stats, notB>>

\* lines 351-391: the submitted _fetch_metadata_with_complete_versions ends
\* after the wait on it has timed out (JoinMeta is the task ending while it
\* is waited for)
MetaFinish(p) ==
    /\ metaTask[p] = "running"
    /\ ppc[p] \notin {"join_refs", "join_meta"}
    /\ metaTask' = [metaTask EXCEPT ![p] = "done"]
    /\ UNCHANGED <<ppc, refsTask, venue_from_refs, references, refsWait, meta_result,
                   metaCalls, firstFetch, retryOverride, metadata_json, references_json,
                   downloading, successful_versions, raised, faults, outcome, collected,
                   reported>>
    /\ UNCHANGED <<stats, notB>>

\* lines 519-523: the wait on fut_refs ended in an exception of the given
\* kind; the handler of line 521 makes it an empty mapping and no venue
RefsWaitFailed(p, kind) ==
    /\ refsWait' = [refsWait EXCEPT ![p] = kind]
    /\ IF RefsWaitCaught(kind)
       THEN /\ references' = [references EXCEPT ![p] = "empty"]
            /\ venue_from_refs' = [venue_from_refs EXCEPT ![p] = "none"]
            /\ ppc' = [ppc EXCEPT ![p] = "join_meta"]
            /\ UNCHANGED raised
       ELSE /\ raised' = [raised EXCEPT ![p] = "Exception"]
            /\ ppc' = [ppc EXCEPT ![p] = "exit"]
            /\ UNCHANGED <<references, venue_from_refs>>

\* lines 519-523: the task ends within the 30 s and fut_refs.result(timeout=30)
\* returns the mapping refs and the venue, or (exc) re-raises what the task
\* raised
JoinRefs(p, exc, refs, venue) ==
    /\ ppc[p] = "join_refs"
    /\ refsTask[p] = "running"
    /\ refsTask' = [refsTask EXCEPT ![p] = "done"]
    /\ IF exc
       THEN RefsWaitFailed(p, "raised")
       ELSE /\ references' = [references EXCEPT ![p] = refs]
            /\ venue_from_refs' = [venue_from_refs EXCEPT ![p] = venue]
            /\ refsWait' = [refsWait EXCEPT ![p] = "ok"]
            /\ ppc' = [ppc EXCEPT ![p] = "join_meta"]
            /\ UNCHANGED raised
    /\ UNCHANGED <<metaTask, meta_result, metaCalls, firstFetch, retryOverride,
                   metadata_json, references_json, downloading, successful_versions,
                   faults, outcome, collected, reported>>
    /\ UNCHANGED <<stats, notB>>

\* lines 519-523: fut_refs.result(timeout=30) times out, the task still runs
TimeoutRefs(p) ==
    /\ ppc[p] = "join_refs"
    /\ refsTask[p] = "running"
    /\ RefsWaitFailed(p, "timeout")
    /\ UNCHANGED <<refsTask, metaTask, meta_result, metaCalls, firstFetch, retryOverride,
                   metadata_json, references_json, downloading, successful_versions,
                   faults, outcome, collected, reported>>
    /\ UNCHANGED <<stats, notB>>

\* lines 528-534: the task ends within the 30 s and fut_meta.result(timeout=30)
\* returns metadata, or None (no entry, or any exception, lines 386-391)
JoinMeta(p, out) ==
    /\ ppc[p] = "join_meta"
    /\ metaTask[p] = "running"
    /\ metaTask' = [metaTask EXCEPT ![p] = "done"]
    /\ meta_result' = [meta_result EXCEPT ![p] = out]
    /\ firstFetch' = [firstFetch EXCEPT ![p] = out]
    /\ ppc' = [ppc EXCEPT ![p] = IF out = "None" THEN "retry" ELSE "reconcile"]
    /\ UNCHANGED <<refsTask, venue_from_refs, references, refsWait, metaCalls,
                   retryOverride, metadata_json, references_json, downloading,
                   successful_versions, raised, faults, outcome, collected, reported>>
    /\ UNCHANGED <<stats, notB>>

\* lines 528-534: fut_meta.result(timeout=30) times out, the task still runs
TimeoutMeta(p) ==
    /\ ppc[p] = "join_meta"
    /\ metaTask[p] = "running"
    /\ meta_result' = [meta_result EXCEPT ![p] = "None"]
    /\ firstFetch' = [firstFetch EXCEPT ![p] = "timeout"]
    /\ ppc' = [ppc EXCEPT ![p] = "retry"]
    /\ UNCHANGED <<refsTask, metaTask, venue_from_refs, references, refsWait, metaCalls,
                   retryOverride, metadata_json, references_json, downloading,
                   successful_versions, raised, faults, outcome, collected, reported>>
    /\ UNCHANGED <<stats, notB>>

\* lines 534-535: the synchronous second call, which answers out
Retry(p, out) ==
    /\ ppc[p] = "retry"
    /\ metaCalls' = [metaCalls EXCEPT ![p] = @ + 1]
    /\ retryOverride' = [retryOverride EXCEPT ![p] = RetryOverride(venue_from_refs[p])]
    /\ meta_result' = [meta_result EXCEPT ![p] = out]
    /\ ppc' = [ppc EXCEPT ![p] = "reconcile"]
    /\ UNCHANGED <<refsTask, metaTask, venue_from_refs, references, refsWait, firstFetch,
                   metadata_json, references_json, downloading, successful_versions,
                   raised, faults, outcome, collected, reported>>
    /\ UNCHANGED <<stats, notB>>

\* a reconciliation that goes on with no metadata
ReconcileNeverRaises(result) == FALSE

\* lines 537-545: with meta_result None nothing after line 535 is reached
ReconcileRaises(result) == result = "None"

\* lines 537-545: the venue is put into meta_result; with meta_result None
\* the item assignment (line 538) or the membership test (line 540) raises
\* TypeError, which leaves the with block.  venue_from_refs is not read
\* again, and how the two fetches went is forgotten.
Reconcile(p) ==
    /\ ppc[p] = "reconcile"
    /\ IF ReconcileRaises(meta_result[p])
       THEN /\ raised' = [raised EXCEPT ![p] = "TypeError"]
            /\ ppc' = [ppc EXCEPT ![p] = "exit"]
       ELSE /\ ppc' = [ppc EXCEPT ![p] = "save_meta"]
            /\ UNCHANGED raised
    /\ venue_from_refs' = [venue_from_refs EXCEPT ![p] = "none"]
    /\ firstFetch' = [firstFetch EXCEPT ![p] = "unset"]
    /\ retryOverride' = [retryOverride EXCEPT ![p] = "unset"]
    /\ UNCHANGED <<refsTask, metaTask, references, refsWait, meta_result, metaCalls,
                   metadata_json, references_json, downloading, successful_versions,
                   faults, outcome, collected, reported>>
    /\ UNCHANGED <<stats, notB>>

\* a write that fails is one of the filesystem failures of the run
Fault(ok) ==
    IF ok THEN UNCHANGED faults
    ELSE faults < MaxFaults /\ faults' = faults + 1

\* lines 548 and 605-612: _save_json writes metadata.json, or logs the
\* exception of the write and returns
SaveMetadata(p, ok) ==
    /\ ppc[p] = "save_meta"
    /\ Fault(ok)
    /\ metadata_json' = [metadata_json EXCEPT ![p] = IF ok THEN "written" ELSE "failed"]
    /\ ppc' = [ppc EXCEPT ![p] = "save_refs"]
    /\ UNCHANGED <<refsTask, metaTask, venue_from_refs, references, refsWait, meta_result,
                   metaCalls, firstFetch, retryOverride, references_json, downloading,
                   successful_versions, raised, outcome, collected, reported>>
    /\ UNCHANGED <<stats, notB>>

\* lines 549 and 605-612: the same for references.json; references is not
\* read again, and how the wait on fut_refs ended is forgotten
SaveReferences(p, ok) ==
    /\ ppc[p] = "save_refs"
    /\ Fault(ok)
    /\ references_json' = [references_json EXCEPT ![p] = IF ok THEN "written" ELSE "failed"]
    /\ references' = [references EXCEPT ![p] = "unset"]
    /\ refsWait' = [refsWait EXCEPT ![p] = "unset"]
    /\ ppc' = [ppc EXCEPT ![p] = "download"]
    /\ UNCHANGED <<refsTask, metaTask, venue_from_refs, meta_result, metaCalls,
                   firstFetch, retryOverride, metadata_json, downloading,
                   successful_versions, raised, outcome, collected, reported>>
    /\ UNCHANGED <<stats, notB>>

\* lines 552 and 453-476: ensure_dir(tex_root) (line 455), then the download
\* tasks are submitted and awaited and n of them succeed; when ensure_dir
\* raises (ok is false) no task is submitted and the exception leaves
\* scrape_single_paper
Download(p, n, ok) ==
    /\ ppc[p] = "download"
    /\ Fault(ok)
    /\ IF ok
       THEN /\ downloading' = [downloading EXCEPT ![p] = TRUE]
            /\ successful_versions' = [successful_versions EXCEPT ![p] = n]
            /\ UNCHANGED raised
       ELSE /\ raised' = [raised EXCEPT ![p] = "OSError"]
            /\ UNCHANGED <<downloading, successful_versions>>
    /\ ppc' = [ppc EXCEPT ![p] = "exit"]
    /\ UNCHANGED <<refsTask, metaTask, venue_from_refs, references, refsWait, meta_result,
                   metaCalls, firstFetch, retryOverride, metadata_json, references_json,
                   outcome, collected, reported>>
    /\ UNCHANGED <<stats, notB>>

\* line 515: leaving the with block waits for both submitted tasks; then
\* lines 554-572 return True, or the exception reaches
\* _scrape_single_paper_safe (lines 598-603).  The pool and the locals of
\* scrape_single_paper are gone.
ExitPool(p) ==
    /\ ppc[p] = "exit"
    /\ refsTask[p] # "running"
    /\ metaTask[p] # "running"
    /\ outcome' = [outcome EXCEPT ![p] =
                      IF SafeResult(raised[p] # "none") THEN "true" ELSE "false"]
    /\ ppc' = [ppc EXCEPT ![p] = "returned"]
    /\ refsTask' = [refsTask EXCEPT ![p] = "idle"]
    /\ metaTask' = [metaTask EXCEPT ![p] = "idle"]
    /\ meta_result' = [meta_result EXCEPT ![p] = "unset"]
    /\ metaCalls' = [metaCalls EXCEPT ![p] = 0]
    /\ successful_versions' = [successful_versions EXCEPT ![p] = -1]
    /\ references' = [references EXCEPT ![p] = "unset"]
    /\ refsWait' = [refsWait EXCEPT ![p] = "unset"]
    /\ UNCHANGED <<venue_from_refs, firstFetch, retryOverride,
                   metadata_json, references_json, downloading, raised, faults,
                   collected, reported>>
    /\ UNCHANGED <<stats, notB>>

\* lines 580-592: as_completed yields the future of p; its outcome is counted
Collect(p) ==
    /\ ppc[p] = "returned"
    /\ p \notin Range(collected)
    /\ stats' = Counted(stats, outcome[p] = "true")
    /\ collected' = Append(collected, p)
    /\ UNCHANGED <<ppc, refsTask, metaTask, venue_from_refs, references, refsWait, meta_result,
                   metaCalls, firstFetch, retryOverride, metadata_json, references_json,
                   downloading, successful_versions, raised, faults, outcome, reported>>
    /\ UNCHANGED notB

\* a loop that does not wait for the futures
NoneAwaited == TRUE

\* lines 580-592: the loop over as_completed has ended, which is when every
\* submitted future has been yielded
AllTaken == Range(collected) = Papers

\* lines 593-596: every future was taken; the statistics are emitted
Report ==
    /\ AllTaken
    /\ reported = 0
    /\ reported' = 1
    /\ UNCHANGED <<ppc, refsTask, metaTask, venue_from_refs, references, refsWait,
                   meta_result, metaCalls, firstFetch, retryOverride, metadata_json,
                   references_json, downloading, successful_versions, raised, faults,
                   outcome, collected>>
    /\ UNCHANGED <<stats, notB>>

scrape_single_paper(p) ==
    \/ StartPaper(p)
    \/ StartFails(p)
    \/ RefsFinish(p)
    \/ MetaFinish(p)
    \/ \E exc \in BOOLEAN, refs \in {"empty", "some"}, venue \in {"none", "venue"} :
          JoinRefs(p, exc, refs, venue)
    \/ TimeoutRefs(p)
    \/ \E out \in {"meta", "None"} : JoinMeta(p, out)
    \/ TimeoutMeta(p)
    \/ \E out \in {"meta", "None"} : Retry(p, out)
    \/ Reconcile(p)
    \/ \E ok \in BOOLEAN : SaveMetadata(p, ok)
    \/ \E ok \in BOOLEAN : SaveReferences(p, ok)
    \/ \E n \in 0..1, ok \in BOOLEAN : Download(p, n, ok)
    \/ ExitPool(p)

BNext == (\E p \in Papers : scrape_single_paper(p) \/ Collect(p)) \/ Report

\* ------------------------------------------ _download_versions_concurrently

Versions == 1..NVersions

\* line 458: min(self.download_workers, max(1, len(versions_info)))
DownloadPool == Min(DEFAULT_DOWNLOAD_WORKERS, Max(1, NVersions))

\* what can happen to one revision: ensure_dir(version_dir) raises (line
\* 479), the download fails (line 481 gives None) for a status other than
\* 200 or for an exception after a part of the archive was written (lines
\* 78-88), the archive is bad (lines 483-492), or the revision is downloaded
\* and extracted
Cases == {"exception", "not_downloaded", "partial", "bad_archive", "extracted"}

\* lines 72-88 and 482-499: the file at tar_path when the task has ended.
\* download_eprint_session opens it for writing (line 78) and leaves what
\* was written when iter_content raises; _download_and_process_version
\* unlinks it (lines 494-497) only in the branch where saved is a path.
TarAfter(case) == IF case = "partial" THEN "partial" ELSE "absent"

\* a task that answers True as soon as the archive was downloaded
ProcessedIgnoringExtraction(case) ==
    IF case = "exception" THEN "raised"
    ELSE IF case \in {"bad_archive", "extracted"} THEN "True" ELSE "False"

\* lines 478-499: what the future of _download_and_process_version holds
Processed(case) ==
    IF case = "exception" THEN "raised"
    ELSE IF case = "extracted" THEN "True" ELSE "False"

\* lines 468-474: ok = fut.result(); if ok: successful_versions += 1; an
\* exception of the task is logged
CountVersion(n, res) == IF res = "True" THEN n + 1 ELSE n

DLOff ==
    /\ dlpc = "off"
    /\ vTask = [v \in Versions |-> "queued"]
    /\ vCase = [v \in Versions |-> "none"]
    /\ vOrder = <<>>
    /\ dlCount = 0
    /\ dlRet = -1
    /\ tarFile = [v \in Versions |-> "absent"]

\* lines 454-466: successful_versions = 0 and every revision is submitted
DLInit ==
    /\ dlpc = "running"
    /\ vTask = [v \in Versions |-> "queued"]
    /\ vCase = [v \in Versions |-> "none"]
    /\ vOrder = <<>>
    /\ dlCount = 0
    /\ dlRet = -1
    /\ tarFile = [v \in Versions |-> "absent"]

\* a worker of the pool starts the next submitted task
VersionStart(v) ==
    /\ dlpc = "running"
    /\ vTask[v] = "queued"
    /\ \A w \in Versions : w < v => vTask[w] # "queued"
    /\ Cardinality({w \in Versions : vTask[w] = "running"}) < DownloadPool
    /\ vTask' = [vTask EXCEPT ![v] = "running"]
    /\ UNCHANGED <<dlpc, vCase, vOrder, dlCount, dlRet, tarFile>>
    /\ UNCHANGED notDL

\* lines 478-499: the task of revision v ends, in one of the cases
VersionEnd(v, case) ==
    /\ dlpc = "running"
    /\ vTask[v] = "running"
    /\ vTask' = [vTask EXCEPT ![v] = "done"]
    /\ vCase' = [vCase EXCEPT ![v] = case]
    /\ tarFile' = [tarFile EXCEPT ![v] = TarAfter(case)]
    /\ UNCHANGED <<dlpc, vOrder, dlCount, dlRet>>
    /\ UNCHANGED notDL

\* lines 467-474: as_completed yields the future of revision v
VersionTaken(v) ==
    /\ dlpc = "running"
    /\ vTask[v] = "done"
    /\ vTask' = [vTask EXCEPT ![v] = "taken"]
    /\ vOrder' = Append(vOrder, v)
    /\ dlCount' = CountVersion(dlCount, Processed(vCase[v]))
    /\ UNCHANGED <<dlpc, vCase, dlRet, tarFile>>
    /\ UNCHANGED notDL

\* lines 475-476: every future was taken; return successful_versions
DLReturn ==
    /\ dlpc = "running"
    /\ \A v \in Versions : vTask[v] = "taken"
    /\ dlRet' = dlCount
    /\ dlpc' = "returned"
    /\ UNCHANGED <<vTask, vCase, vOrder, dlCount, tarFile>>
    /\ UNCHANGED notDL

DLNext ==
    \/ \E v \in Versions : VersionStart(v)
    \/ \E v \in Versions, case \in Cases : VersionEnd(v, case)
    \/ \E v \in Versions : VersionTaken(v)
    \/ DLReturn

\* ------------------------------------------------------------------- ids

\* An id is a sequence of tokens: "arXiv:", " ", ".", "-", "v", a block of
\* letters or a block of digits.
Words == {"math", "cs"}
YearMonths == {"2504", "9912"}
Numbers == {"13946", "0001"}
Revisions == {"1", "2"}
MaxRefs == 2                 \* raw references of a response
DigitBlocks == YearMonths \cup Numbers \cup Revisions

\* str.replace("arXiv:", "")
RemoveArxiv(id) == SelectSeq(id, LAMBDA t : t # "arXiv:")

\* str.strip()
RECURSIVE Strip(_)
Strip(id) ==
    IF id = <<>> THEN id
    ELSE IF Head(id) = " " THEN Strip(Tail(id))
    ELSE IF id[Len(id)] = " " THEN Strip(SubSeq(id, 1, Len(id) - 1))
    ELSE id

\* re.sub(r"v\d+$", "", id)
StripRevision(id) ==
    IF Len(id) >= 2 /\ id[Len(id) - 1] = "v" /\ id[Len(id)] \in DigitBlocks
    THEN SubSeq(id, 1, Len(id) - 2)
    ELSE id

\* the place of the first "." of id
FirstDot(id) == CHOOSE i \in 1..Len(id) : id[i] = "." /\ \A j \in 1..(i - 1) : id[j] # "."

\* lines 55-61
format_yymm_id(arxiv_id) ==
    LET id == StripRevision(Strip(RemoveArxiv(arxiv_id)))
    IN IF "." \in Range(id)
       THEN SubSeq(id, 1, FirstDot(id) - 1) \o <<"-">> \o SubSeq(id, FirstDot(id) + 1, Len(id))
       ELSE id

\* lines 344-349: ^(\w+\.)?\d{2}(0[1-9]|1[0-2])\.\d{4,5}$ on the id without
\* its revision suffix
is_valid_arxiv_id(arxiv_id) ==
    /\ arxiv_id # <<>>
    /\ LET base == StripRevision(arxiv_id)
       IN \/ /\ Len(base) = 3
             /\ base[1] \in YearMonths /\ base[2] = "." /\ base[3] \in Numbers
          \/ /\ Len(base) = 5
             /\ base[1] \in Words \cup DigitBlocks /\ base[2] = "."
             /\ base[3] \in YearMonths /\ base[4] = "." /\ base[5] \in Numbers

\* the ids the validator accepts: with or without a subject class, with or
\* without a revision suffix
BareIds ==
    {<<y, ".", n>> : y \in YearMonths, n \in Numbers}
    \cup {<<w, ".", y, ".", n>> : w \in Words, y \in YearMonths, n \in Numbers}

WithRevision(id) == {id} \cup {id \o <<"v", r>> : r \in Revisions}

\* the forms in which an id is given: as it is, or after "arXiv:"
Given(id) == {id, <<"arXiv:">> \o id}

IdOff ==
    /\ rawId = <<>>
    /\ bareId = <<>>
    /\ idpc = "off"
    /\ once = <<>>
    /\ twice = <<>>
    /\ bareOnce = <<>>

IdInit ==
    /\ \E b \in BareIds : \E id \in WithRevision(b) : \E g \in Given(id) :
          /\ is_valid_arxiv_id(id)
          /\ rawId = g
          /\ bareId = b
    /\ idpc = "start"
    /\ once = <<>>
    /\ twice = <<>>
    /\ bareOnce = <<>>

FormatOnce ==
    /\ idpc = "start"
    /\ once' = format_yymm_id(rawId)
    /\ idpc' = "once"
    /\ UNCHANGED <<rawId, bareId, twice, bareOnce>>
    /\ UNCHANGED notId

FormatTwice ==
    /\ idpc = "once"
    /\ twice' = format_yymm_id(once)
    /\ idpc' = "twice"
    /\ UNCHANGED <<rawId, bareId, once, bareOnce>>
    /\ UNCHANGED notId

FormatBare ==
    /\ idpc = "twice"
    /\ bareOnce' = format_yymm_id(bareId)
    /\ idpc' = "done"
    /\ UNCHANGED <<rawId, bareId, once, twice>>
    /\ UNCHANGED notId

IdNext == FormatOnce \/ FormatTwice \/ FormatBare

\* ------------------------------------------------------ the list of ids

\* a list of ids of different papers
DistinctList == [p \in Papers |-> <<"2504", ".", ToString(13940 + p)>>]

\* ids of which two name the same paper, one with "arXiv:" and a revision
RepeatedIds ==
    {<<"2504", ".", "13941">>,
     <<"arXiv:", "2504", ".", "13941", "v", "2">>,
     <<"2504", ".", "13942">>}

\* line 574: the argument of scrape_papers
ListInit(ids) == arxiv_ids = ids

\* lines 504-507: the directory scrape_single_paper writes for list entry p
paper_dir(p) == format_yymm_id(StripRevision(Strip(RemoveArxiv(arxiv_ids[p]))))

\* --------------------------------------------------------- _ss_get_cached

\* The calls of _ss_get_cached made for one paper: by the reference fetch
\* (line 227), by the submitted metadata fetch (line 370, venue_override
\* None) and by the retry of the metadata fetch (lines 535 and 370).
SSCalls == {"refs", "meta", "retry"}

\* the argument fields, which with the id is the key of the lru_cache: the
\* long list of lines 224-226, or 'venue,publicationVenue' (line 370)
Fields(c) == IF c = "refs" THEN "references" ELSE "venue"

\* line 159: status_forcelist=[429, 500, 502, 503, 504]
status_forcelist == {"429", "500", "502", "503", "504"}

\* what a request can be answered with: a status, or no answer at all
Answers == {"200", "404", "429", "500", "error"}

\* lines 159-161: the adapter sends the request again after a connection
\* error and after a status of status_forcelist
Retried(answer) == answer = "error" \/ answer \in status_forcelist

\* lines 205-214, for the response the session returned
Body(status) == IF status = "200" THEN "data" ELSE IF status = "429" THEN "None" ELSE "{}"

SSInit ==
    /\ cpc = [c \in SSCalls |-> "idle"]
    /\ cache = [f \in {"references", "venue"} |-> "absent"]
    /\ waits = [c \in SSCalls |-> 0]
    /\ sends = [c \in SSCalls |-> 0]
    /\ resp = [c \in SSCalls |-> "none"]
    /\ saw429 = [c \in SSCalls |-> FALSE]
    /\ cres = [c \in SSCalls |-> "unset"]
    /\ creg = [c \in SSCalls |-> 0]

\* The fetch does not come to its call of _ss_get_cached: the metadata
\* fetch finds no arXiv entry or fails before line 370, the retry is given a
\* venue (line 367) or is not made at all.
SSSkip(c) ==
    /\ c # "refs"
    /\ cpc[c] = "idle"
    /\ cpc' = [cpc EXCEPT ![c] = "skipped"]
    /\ UNCHANGED <<cache, waits, sends, resp, saw429, cres, creg>>
    /\ UNCHANGED <<stats, notSS>>

\* line 198: the lru_cache is asked; with the key present the stored result
\* is returned and the body is not run.  The retry is made after the wait
\* on the submitted metadata fetch has ended, by a result or by the timeout.
SSLookup(c) ==
    /\ cpc[c] = "idle"
    /\ IF cache[Fields(c)] # "absent"
       THEN /\ cres' = [cres EXCEPT ![c] = cache[Fields(c)]]
            /\ cpc' = [cpc EXCEPT ![c] = "done"]
       ELSE /\ cpc' = [cpc EXCEPT ![c] = "l200"]
            /\ UNCHANGED cres
    /\ UNCHANGED <<cache, waits, sends, resp, saw429, creg>>
    /\ UNCHANGED <<stats, notSS>>

\* line 200: self.ss_rate_limiter.wait_if_needed() has returned
SSGate(c) ==
    /\ cpc[c] = "l200"
    /\ waits' = [waits EXCEPT ![c] = @ + 1]
    /\ cpc' = [cpc EXCEPT ![c] = "l204"]
    /\ UNCHANGED <<cache, sends, resp, saw429, cres, creg>>
    /\ UNCHANGED <<stats, notSS>>

\* line 204: self.session.get sends a request, which is answered.  The
\* adapter sends it again while Retry allows (total more times); when it
\* does not, session.get raises (RetryError, ConnectionError).  Any other
\* answer is the response session.get returns.
SSSend(c, answer) ==
    /\ cpc[c] = "l204"
    /\ sends' = [sends EXCEPT ![c] = @ + 1]
    /\ saw429' = [saw429 EXCEPT ![c] = @ \/ answer = "429"]
    /\ IF Retried(answer)
       THEN /\ cpc' = [cpc EXCEPT ![c] = IF sends[c] < total THEN "l204" ELSE "l216"]
            /\ UNCHANGED resp
       ELSE /\ resp' = [resp EXCEPT ![c] = answer]
            /\ cpc' = [cpc EXCEPT ![c] = "l205"]
    /\ UNCHANGED <<cache, waits, cres, creg>>
    /\ UNCHANGED <<stats, notSS>>

\* lines 205-214: the response is turned into the result; a 429 is counted
SSRespond(c) ==
    /\ cpc[c] = "l205"
    /\ cres' = [cres EXCEPT ![c] = Body(resp[c])]
    /\ stats' = IF resp[c] = "429"
                THEN [stats EXCEPT !.ss_rate_limit_hits = @ + 1]
                ELSE stats
    /\ cpc' = [cpc EXCEPT ![c] = "return"]
    /\ UNCHANGED <<cache, waits, sends, resp, saw429, creg>>
    /\ UNCHANGED notSS

\* line 216: self.stats['ss_errors'] += 1, the load
SSErrorLoad(c) ==
    /\ cpc[c] = "l216"
    /\ creg' = [creg EXCEPT ![c] = stats.ss_errors]
    /\ cpc' = [cpc EXCEPT ![c] = "l216s"]
    /\ UNCHANGED <<cache, waits, sends, resp, saw429, cres>>
    /\ UNCHANGED <<stats, notSS>>

\* lines 216-218: the store, and return None
SSErrorStore(c) ==
    /\ cpc[c] = "l216s"
    /\ stats' = [stats EXCEPT !.ss_errors = creg[c] + 1]
    /\ creg' = [creg EXCEPT ![c] = 0]
    /\ cres' = [cres EXCEPT ![c] = "None"]
    /\ cpc' = [cpc EXCEPT ![c] = "return"]
    /\ UNCHANGED <<cache, waits, sends, resp, saw429>>
    /\ UNCHANGED notSS

\* line 198: the body has returned and the lru_cache stores the result
SSReturn(c) ==
    /\ cpc[c] = "return"
    /\ cache' = [cache EXCEPT ![Fields(c)] = cres[c]]
    /\ cpc' = [cpc EXCEPT ![c] = "done"]
    /\ UNCHANGED <<waits, sends, resp, saw429, cres, creg>>
    /\ UNCHANGED <<stats, notSS>>

ss_get_cached(c) ==
    \/ SSSkip(c)
    \/ SSLookup(c)
    \/ SSGate(c)
    \/ \E answer \in Answers : SSSend(c, answer)
    \/ SSRespond(c)
    \/ SSErrorLoad(c)
    \/ SSErrorStore(c)
    \/ SSReturn(c)

SSNext == \E c \in SSCalls : ss_get_cached(c)

\* ------------------------------------- _fetch_references_and_paper_venue

\* line 332: the spellings of the key of externalIds, in the order tried
KeySpellingsReversed == <<"ARXIV", "arxiv", "arXiv", "ArXiv">>

KeySpellings == <<"ArXiv", "arXiv", "arxiv", "ARXIV">>

\* lines 330-335: the value of the first key that holds one, <<>> when none
\* does (or externalIds is not an object)
RECURSIVE FirstValue(_, _)
FirstValue(ext_ids, i) ==
    IF i > Len(KeySpellings) THEN <<>>
    ELSE IF ext_ids[KeySpellings[i]] # <<>> THEN ext_ids[KeySpellings[i]]
    ELSE FirstValue(ext_ids, i + 1)

\* [\d\.]+ : the longest run of digits and dots at the start of text
RECURSIVE DigitsAndDots(_)
DigitsAndDots(text) ==
    IF text # <<>> /\ Head(text) \in DigitBlocks \cup {"."}
    THEN <<Head(text)>> \o DigitsAndDots(Tail(text))
    ELSE <<>>

\* lines 338-341: group 1 of arxiv\.org/(abs|pdf)/([\d\.]+v?\d*), <<>> when
\* the pattern does not match.  A url is its part up to the id, then the rest.
UrlMatch(url) ==
    IF Len(url) < 2 \/ url[1] \notin {"arxiv.org/abs/", "arxiv.org/pdf/"} THEN <<>>
    ELSE LET rest == Tail(url)
             run == DigitsAndDots(rest)
             after == SubSeq(rest, Len(run) + 1, Len(rest))
         IN IF run = <<>> THEN <<>>
            ELSE IF after # <<>> /\ Head(after) = "v"
            THEN IF Len(after) >= 2 /\ after[2] \in DigitBlocks
                 THEN run \o <<"v", after[2]>>
                 ELSE run \o <<"v">>
            ELSE run

\* lines 326-342
extract_arxiv_id_comprehensive(ref) ==
    IF ~ref.isdict THEN <<>>
    ELSE IF FirstValue(ref.externalIds, 1) # <<>> THEN FirstValue(ref.externalIds, 1)
    ELSE UrlMatch(ref.url)

\* line 252: if arxiv_ref_id and self._is_valid_arxiv_id(arxiv_ref_id)
IdAccepted(id) == id # <<>> /\ is_valid_arxiv_id(id)

\* The entries of the field references of a response.  An entry is an object
\* or not; of an object the model keeps externalIds (<<>> for a key it does
\* not hold), url (<<>> when it has none) and title ("" when missing, null
\* or empty).
NoIds == [k \in Range(KeySpellings) |-> <<>>]

\* a reference as the service returns it: the id under "ArXiv", and no url,
\* which is not among the fields asked for (lines 224-226)
Reference(id, title) ==
    [isdict |-> TRUE, externalIds |-> [NoIds EXCEPT !.ArXiv = id], url |-> <<>>,
     title |-> title]

RefIds ==
    {<<>>, <<"2504", ".", "13946">>, <<"2504", ".", "13946", "v", "2">>,
     <<"9912", ".", "0001">>, <<"arXiv:", "2504", ".", "13946">>}

RawReferences ==
    {[isdict |-> FALSE, externalIds |-> NoIds, url |-> <<>>, title |-> ""]}
    \cup {Reference(id, t) : id \in RefIds, t \in {"", "T", "U"}}

RefLists == UNION {[1..n -> RawReferences] : n \in 0..MaxRefs}

\* What _ss_get_cached returns: None (request error, 429), {} (404, any
\* other status, an empty object), or an object with or without a venue whose
\* field references is missing, null or a list.
Responses ==
    {[kind |-> k, venue |-> "none", refsField |-> "missing", refs |-> <<>>] :
        k \in {"None", "empty"}}
    \cup {[kind |-> "object", venue |-> v, refsField |-> f, refs |-> <<>>] :
        v \in {"none", "venue"}, f \in {"missing", "null"}}
    \cup {[kind |-> "object", venue |-> v, refsField |-> "list", refs |-> l] :
        v \in {"none", "venue"}, l \in RefLists}

\* a build that keeps a reference without title
BuildKeepingUntitled(ref, ref_id) == <<[paper_title |-> ref.title]>>

\* lines 262-297: <<>> is None.  With fields of the types the service
\* returns nothing in the body raises.
build_reference_metadata_accurate(ref, ref_id) ==
    IF ref.title = "" THEN <<>> ELSE <<[paper_title |-> ref.title]>>

\* a mapping in which the first record of a key stays
PutIfAbsent(acc, key, value) == acc @@ (key :> value)

\* line 257: references[formatted_ref_id] = ref_data
Put(acc, key, value) == (key :> value) @@ acc

\* lines 248-257: the loop, from entry i on, over the mapping built so far
RECURSIVE CollectReferences(_, _, _)
CollectReferences(refs, i, acc) ==
    IF i > Len(refs) THEN acc
    ELSE LET ref == refs[i]
             ref_id == extract_arxiv_id_comprehensive(ref)
             ref_data == build_reference_metadata_accurate(ref, ref_id)
         IN IF ref.isdict /\ IdAccepted(ref_id) /\ ref_data # <<>>
            THEN CollectReferences(refs, i + 1,
                     Put(acc, format_yymm_id(ref_id), ref_data[1]))
            ELSE CollectReferences(refs, i + 1, acc)

\* lines 248-253: arxiv_refs_count
ArxivRefsCount(refs) ==
    Cardinality({i \in 1..Len(refs) :
        /\ refs[i].isdict
        /\ IdAccepted(extract_arxiv_id_comprehensive(refs[i]))})

FROff ==
    /\ frData = [kind |-> "None", venue |-> "none", refsField |-> "missing", refs |-> <<>>]
    /\ frpc = "off"
    /\ frReferences = <<>>
    /\ frVenue = "None"

FRInit ==
    /\ frData \in Responses
    /\ frpc = "call"
    /\ frReferences = <<>>
    /\ frVenue = "None"

\* lines 220-260.  data.get('references', []) is the list, [] when the
\* field is missing, and None when it is null: len(None) then raises
\* TypeError (line 246).  The time totals are not modelled.
fetch_references_and_paper_venue ==
    /\ frpc = "call"
    /\ IF frData.kind \in {"None", "empty"}
       THEN /\ frpc' = "returned"
            /\ UNCHANGED <<frReferences, frVenue, stats>>
       ELSE IF frData.refsField = "null"
       THEN /\ frpc' = "raised"
            /\ UNCHANGED <<frReferences, frVenue, stats>>
       ELSE /\ frpc' = "returned"
            /\ frReferences' = CollectReferences(frData.refs, 1, <<>>)
            /\ frVenue' = IF frData.venue = "none" THEN "None" ELSE frData.venue
            /\ stats' = [stats EXCEPT
                   !.references_found = @ + Len(frData.refs),
                   !.references_with_arxiv = @ + ArxivRefsCount(frData.refs)]
    /\ UNCHANGED frData
    /\ UNCHANGED notFR

FRNext == fetch_references_and_paper_venue

\* ------------------------------------------- the id of one raw reference

Urls ==
    {<<>>,
     <<"example.org/", "2504", ".", "13946">>,
     <<"arxiv.org/abs/", "9912", ".", "0001", "v", "1">>,
     <<"arxiv.org/pdf/", "9912", ".", "0001", ".", "pdf">>,
     <<"arxiv.org/abs/", "cs", ".", "9912", ".", "0001">>}

\* the raw references whose id is looked for: any key spelling may hold a
\* valid id, an id that fails validation, or nothing
ExtractionInputs ==
    {[isdict |-> FALSE, externalIds |-> NoIds, url |-> <<>>, title |-> "T"]}
    \cup {[isdict |-> TRUE, externalIds |-> ids, url |-> u, title |-> "T"] :
            ids \in [Range(KeySpellings) ->
                        {<<>>, <<"2504", ".", "13946">>, <<"arXiv:", "2504", ".", "13946">>,
                         <<"2504", ".", "0001", "v", "2">>}],
            u \in Urls}

EXOff ==
    /\ expc = "off"
    /\ exRef = [isdict |-> FALSE, externalIds |-> NoIds, url |-> <<>>, title |-> "T"]
    /\ arxiv_ref_id = <<>>
    /\ exKept = FALSE

EXInit ==
    /\ expc = "call"
    /\ exRef \in ExtractionInputs
    /\ arxiv_ref_id = <<>>
    /\ exKept = FALSE

\* lines 249-253: one turn of the loop up to the test of the id
ExtractAndValidate ==
    /\ expc = "call"
    /\ arxiv_ref_id' = extract_arxiv_id_comprehensive(exRef)
    /\ exKept' = (exRef.isdict /\ IdAccepted(arxiv_ref_id'))
    /\ expc' = "done"
    /\ UNCHANGED exRef
    /\ UNCHANGED notEX

EXNext == ExtractAndValidate

\* ------------------------------ metadata and versions of one paper together

\* the two invocations of _fetch_metadata_with_complete_versions: the
\* submitted one (line 517) and the retry (line 535)
Invocations == {1, 2}

\* what _discover_all_versions returns: the run 1..k of the revisions found,
\* <<>> when there is none
Discoveries == {[i \in 1..k |-> i] : k \in 0..NVersions}

\* a fetch that hands on what the discovery returned
AllVersionsAsDiscovered(found_versions) == found_versions

\* lines 356-358: all_versions, [1] when the discovery returned nothing
AllVersions(found_versions) == IF found_versions = <<>> THEN <<1>> ELSE found_versions

\* lines 353-391: what invocation c returns.  The metadata is named by the
\* invocation that made it, 0 is None (no arXiv entry, or an exception).
FetchResult(c) ==
    IF found[c]
    THEN [metadata |-> c, versions_info |-> AllVersions(discovered[c])]
    ELSE [metadata |-> 0, versions_info |-> <<>>]

MVOff ==
    /\ fpc = "off"
    /\ discovered = [c \in Invocations |-> <<>>]
    /\ found = [c \in Invocations |-> FALSE]
    /\ fetched_meta = 0
    /\ versions_info = <<>>
    /\ persisted_meta = 0
    /\ downloaded_versions = <<>>

\* lines 515-517: the metadata fetch is submitted; what each invocation
\* will find is fixed by the services
MVInit ==
    /\ fpc = "join_meta"
    /\ discovered \in [Invocations -> Discoveries]
    /\ found \in [Invocations -> BOOLEAN]
    /\ fetched_meta = 0
    /\ versions_info = <<>>
    /\ persisted_meta = 0
    /\ downloaded_versions = <<>>

\* lines 528-532: meta_result, versions_info = fut_meta.result(timeout=30),
\* or None, [] when the wait times out or raises
MVJoin(timeout) ==
    /\ fpc = "join_meta"
    /\ IF timeout
       THEN fetched_meta' = 0 /\ versions_info' = <<>>
       ELSE /\ fetched_meta' = FetchResult(1).metadata
            /\ versions_info' = FetchResult(1).versions_info
    /\ fpc' = "checked"
    /\ UNCHANGED <<discovered, found, persisted_meta, downloaded_versions>>
    /\ UNCHANGED <<stats, notMV>>

\* lines 534-545: with meta_result None the retry gives both values anew;
\* with meta_result still None the paper fails
MVRetry ==
    /\ fpc = "checked"
    /\ LET result == IF fetched_meta = 0
                     THEN FetchResult(2)
                     ELSE [metadata |-> fetched_meta, versions_info |-> versions_info]
       IN /\ fetched_meta' = result.metadata
          /\ versions_info' = result.versions_info
          /\ fpc' = IF result.metadata = 0 THEN "failed" ELSE "save"
    /\ UNCHANGED <<discovered, found, persisted_meta, downloaded_versions>>
    /\ UNCHANGED <<stats, notMV>>

\* lines 548-552: metadata.json is written (or the write fails and is
\* logged), and the versions are handed to _download_versions_concurrently
MVSaveAndDownload(ok) ==
    /\ fpc = "save"
    /\ persisted_meta' = IF ok THEN fetched_meta ELSE 0
    /\ downloaded_versions' = versions_info
    /\ fpc' = "downloaded"
    /\ UNCHANGED <<discovered, found, fetched_meta, versions_info>>
    /\ UNCHANGED <<stats, notMV>>

MVNext ==
    \/ \E timeout \in BOOLEAN : MVJoin(timeout)
    \/ MVRetry
    \/ \E ok \in BOOLEAN : MVSaveAndDownload(ok)

\* ------------------------------------------------- the venue of one paper

\* A text is a sequence of pieces, " " being white space; NoText stands for
\* a value that is no string (None, a missing field).
NoText == <<"None">>

\* x and x.strip(), for a value that is a string or not
NonBlank(x) == x # NoText /\ Strip(x) # <<>>

PublicationVenueNames == {NoText, <<>>, <<" ">>, <<"ICML">>, <<" ", "ICML">>}
VenueStrings == {NoText, <<>>, <<" ">>, <<"NeurIPS">>}
JournalRefs == {NoText, <<" ">>, <<"JMLR", " ">>}

\* What _ss_get_cached returns, as far as the venue goes: None, {}, or an
\* object whose publicationVenue is an object with a name or is none, and
\* whose venue is a string or is none.
VenueResponses ==
    {[kind |-> k, pubv |-> "none", name |-> NoText, venue |-> NoText] :
        k \in {"None", "empty"}}
    \cup {[kind |-> "object", pubv |-> "none", name |-> NoText, venue |-> v] :
        v \in VenueStrings}
    \cup {[kind |-> "object", pubv |-> "dict", name |-> n, venue |-> v] :
        n \in PublicationVenueNames, v \in VenueStrings}

\* lines 228-243: paper_venue of _fetch_references_and_paper_venue
PaperVenue(data) ==
    IF data.kind # "object" THEN NoText
    ELSE IF data.pubv = "dict" /\ NonBlank(data.name) THEN Strip(data.name)
    ELSE IF NonBlank(data.venue) THEN Strip(data.venue)
    ELSE NoText

\* lines 366-380: metadata['publication_venue'] of
\* _fetch_metadata_with_complete_versions.  The plain venue is looked at
\* only when publicationVenue is no object (elif, line 377).
MetadataVenue(data, override, ref) ==
    IF override # NoText /\ override # <<>> THEN override
    ELSE LET from_service ==
                 IF data.kind # "object" THEN <<>>
                 ELSE IF data.pubv = "dict"
                 THEN IF NonBlank(data.name) THEN Strip(data.name) ELSE <<>>
                 ELSE IF NonBlank(data.venue) THEN Strip(data.venue)
                 ELSE <<>>
         IN IF from_service = <<>> /\ ref # NoText /\ ref # <<>>
            THEN Strip(ref)
            ELSE from_service

\* a reconciliation that keeps a venue the metadata fetch found
ReconciledKeepingMetadata(from_refs, from_metadata) ==
    IF from_metadata # NoText /\ from_metadata # <<>> THEN from_metadata
    ELSE IF from_refs # NoText THEN from_refs ELSE <<>>

\* lines 537-541
Reconciled(from_refs, from_metadata) ==
    IF from_refs # NoText /\ from_refs # <<>> THEN from_refs
    ELSE IF from_metadata = NoText THEN <<>> ELSE from_metadata

VNOff ==
    /\ vnpc = "off"
    /\ refsData = [kind |-> "None", pubv |-> "none", name |-> NoText, venue |-> NoText]
    /\ metaData = [kind |-> "None", pubv |-> "none", name |-> NoText, venue |-> NoText]
    /\ journal_ref = NoText
    /\ paper_venue = NoText
    /\ venue_override = NoText
    /\ meta_venue = NoText
    /\ publication_venue = NoText

\* the answers of the service to the two requests and the journal
\* reference of the arXiv entry
VNInit ==
    /\ vnpc = "join_refs"
    /\ refsData \in VenueResponses
    /\ metaData \in VenueResponses
    /\ journal_ref \in JournalRefs
    /\ paper_venue = NoText
    /\ venue_override = NoText
    /\ meta_venue = NoText
    /\ publication_venue = NoText

\* lines 519-523: venue_from_refs, None when the wait failed
VNJoinRefs(failed) ==
    /\ vnpc = "join_refs"
    /\ paper_venue' = IF failed THEN NoText ELSE PaperVenue(refsData)
    /\ vnpc' = "join_meta"
    /\ UNCHANGED <<refsData, metaData, journal_ref, venue_override, meta_venue,
                   publication_venue>>
    /\ UNCHANGED notVN

\* lines 528-535: the metadata used is that of the submitted fetch, made
\* without override, or (retry) that of the retry, made with venue_from_refs
VNJoinMeta(retry) ==
    /\ vnpc = "join_meta"
    /\ venue_override' = IF retry THEN paper_venue ELSE NoText
    /\ meta_venue' = MetadataVenue(metaData, venue_override', journal_ref)
    /\ vnpc' = "reconcile"
    /\ UNCHANGED <<refsData, metaData, journal_ref, paper_venue, publication_venue>>
    /\ UNCHANGED notVN

\* lines 537-548: the venue is settled and metadata.json written
VNReconcile ==
    /\ vnpc = "reconcile"
    /\ publication_venue' = Reconciled(paper_venue, meta_venue)
    /\ vnpc' = "saved"
    /\ UNCHANGED <<refsData, metaData, journal_ref, paper_venue, venue_override,
                   meta_venue>>
    /\ UNCHANGED notVN

VNNext ==
    \/ \E failed \in BOOLEAN : VNJoinRefs(failed)
    \/ \E retry \in BOOLEAN : VNJoinMeta(retry)
    \/ VNReconcile

\* ---------------------------------------------------------- specifications

\* the parts of the program a specification leaves at rest
Off == StatsInit /\ STInit /\ ListInit(DistinctList) /\ BInit /\ DLOff /\ IdOff /\ SSInit /\ FROff /\ MVOff /\ EXOff /\ VNOff

\* One thread calls the limiter, again and again.
InitRL1 == RLInit({1}, MaxCalls) /\ DVOff /\ Off
SpecRL1 == InitRL1 /\ [][RLNext]_vars

\* Several threads call it: the reference task and the metadata task of a
\* paper, and those of the other papers of the batch (lines 516-517, 578).
InitRL == RLInit(Callers, MaxConcurrentCalls) /\ DVOff /\ Off
SpecRL == InitRL /\ [][RLNext]_vars

\* One call of _discover_all_versions.
InitDV == DVInit /\ RLOff /\ Off
SpecDV == InitDV /\ [][DVNext]_vars

\* The += statements on the shared counters, run by threads of the pools.
InitStats == Off /\ RLOff /\ DVOff
SpecStats == InitStats /\ [][STNext]_vars

\* One call of _download_versions_concurrently.
InitDL == DLInit /\ StatsInit /\ STInit /\ ListInit(DistinctList) /\ BInit /\ IdOff
          /\ SSInit /\ FROff /\ MVOff /\ EXOff /\ VNOff /\ RLOff /\ DVOff
SpecDL == InitDL /\ [][DLNext]_vars

\* format_yymm_id applied to an id the validator accepts, and to its result.
InitId == IdInit /\ StatsInit /\ STInit /\ ListInit(DistinctList) /\ BInit /\ DLOff
          /\ SSInit /\ FROff /\ MVOff /\ EXOff /\ VNOff /\ RLOff /\ DVOff
SpecId == InitId /\ [][IdNext]_vars

\* _fetch_references_and_paper_venue over the results of _ss_get_cached.
InitFR == FRInit /\ StatsInit /\ STInit /\ ListInit(DistinctList) /\ BInit /\ DLOff
          /\ IdOff /\ SSInit /\ MVOff /\ EXOff /\ VNOff /\ RLOff /\ DVOff
SpecFR == InitFR /\ [][FRNext]_vars

\* The metadata fetch, its retry and what scrape_single_paper does with
\* their results.
InitMV == MVInit /\ StatsInit /\ STInit /\ ListInit(DistinctList) /\ BInit /\ DLOff
          /\ IdOff /\ SSInit /\ FROff /\ EXOff /\ VNOff /\ RLOff /\ DVOff
SpecMV == InitMV /\ [][MVNext]_vars

\* The extraction and validation of the id of one raw reference.
InitEX == EXInit /\ StatsInit /\ STInit /\ ListInit(DistinctList) /\ BInit /\ DLOff
          /\ IdOff /\ SSInit /\ FROff /\ MVOff /\ VNOff /\ RLOff /\ DVOff
SpecEX == InitEX /\ [][EXNext]_vars

\* The venue of one paper, from the two fetches to metadata.json.
InitVN == VNInit /\ StatsInit /\ STInit /\ ListInit(DistinctList) /\ BInit /\ DLOff
          /\ IdOff /\ SSInit /\ FROff /\ MVOff /\ EXOff /\ RLOff /\ DVOff
SpecVN == InitVN /\ [][VNNext]_vars

\* The calls of _ss_get_cached made for one paper.
InitSS == Off /\ RLOff /\ DVOff
SpecSS == InitSS /\ [][SSNext]_vars

\* scrape_papers over NPapers ids of different papers.
Init == Off /\ RLOff /\ DVOff
Next == BNext
Spec == Init /\ [][Next]_vars

\* scrape_papers when every call made for a paper returns or times out and
\* every thread of a pool is scheduled: no step that can be taken is put off
\* for ever.
Fairness ==
    /\ \A p \in Papers : WF_vars(scrape_single_paper(p)) /\ WF_vars(Collect(p))
    /\ WF_vars(Report)
SpecLive == Init /\ [][Next]_vars /\ Fairness

\* scrape_papers over any list of NPapers ids, repeated ones included.
InitList ==
    /\ \E ids \in [Papers -> RepeatedIds] : ListInit(ids)
    /\ StatsInit /\ STInit /\ BInit /\ DLOff /\ IdOff /\ SSInit /\ FROff /\ MVOff /\ EXOff /\ VNOff /\ RLOff /\ DVOff
SpecList == InitList /\ [][BNext]_vars

\* ----------------------------------------------------- RateLimiter, checked

\* consecutive entries of a sequence of timestamps are at least d apart
Spaced(seq, d) == \A i \in 1..(Len(seq) - 1) : seq[i + 1] - seq[i] >= d

\* any per_5_min + 1 consecutive recorded calls span at least the window
QuotaKept(seq) ==
    \A i \in 1..Len(seq) :
        i + per_5_min <= Len(seq) => seq[i + per_5_min] - seq[i] >= window

\* C4: with several threads calling wait_if_needed, the check and the
\* recording act as one critical section: the times at which callers pass
\* the spacing check are at least 1/per_second apart, and no window of 300 s
\* holds more than per_5_min recorded calls, over the merged sequence of the
\* calls of all threads.
C4_ConcurrentCallersSafe == Spaced(passed, MinSpacing) /\ QuotaKept(hist)

\* C5: for one caller, two consecutive permitted calls (the times at which
\* wait_if_needed records the call and returns) are at least 1/per_second
\* apart, also after a call that slept on the full window.
C5_ReturnsSpaced == Spaced(hist, MinSpacing)

\* C6: for one caller, no 300 s window holds more than per_5_min recorded
\* calls: the call that finds the window full is recorded at least 300 s
\* after the oldest timestamp in it.
C6_WindowQuota == QuotaKept(hist)

\* C7: wait_if_needed never fails: no caller, alone or among others, ends
\* in an error (an access to the empty deque, a negative sleep).
C7_NeverFails == \A t \in Callers : pc[t] \notin {"IndexError", "ValueError"}

\* ---------------------------------------------------- statistics, checked

\* C3: no increment of a counter shared by concurrent tasks is lost: once
\* every task has finished, ss_requests_made is the number of requests
\* issued, version_checks the number of probes answered and
\* versions_downloaded the number of revisions downloaded.
C3_NoLostIncrement ==
    (\A t \in StatThreads : statKey[t] = "none") =>
        \A k \in SharedKeys : stats[k] = events[k]

\* --------------------------------------------------------- batch, checked

\* the papers whose orchestration ended in the hard metadata failure
HardFailed == {p \in Papers : raised[p] = "TypeError"}

\* C1: when exactly one paper of the batch ends in a hard metadata failure
\* (and no other paper meets a failure of its own), every other paper runs
\* to completion and is counted successful, and papers_failed is 1.
C1_BatchIsolation ==
    (reported = 1 /\ Cardinality(HardFailed) = 1 /\ \A p \in Papers \ HardFailed : raised[p] = "none") =>
        /\ stats.papers_failed = 1
        /\ stats.papers_successful = NPapers - 1
        /\ \A p \in Papers \ HardFailed : downloading[p] /\ outcome[p] = "true"

\* the last paper of the batch failed and the others were counted successful
C1_Witness ==
    /\ reported = 1
    /\ HardFailed = {NPapers}
    /\ stats.papers_failed = 1
    /\ stats.papers_successful = NPapers - 1

\* C2: after scrape_papers, papers_attempted is the number of ids and
\* papers_successful + papers_failed = papers_attempted; the three values
\* depend on the outcomes of the papers only, not on the order in which the
\* tasks completed.
C2_CountsAfterBatch ==
    reported = 1 =>
        /\ stats.papers_attempted = NPapers
        /\ stats.papers_successful + stats.papers_failed = stats.papers_attempted
        /\ stats.papers_successful = Cardinality({p \in Papers : outcome[p] = "true"})
        /\ stats.papers_failed = Cardinality({p \in Papers : outcome[p] = "false"})

\* the tasks completed in the reverse of the order submitted, the first
\* paper failed and the last succeeded
C2_Witness ==
    /\ reported = 1
    /\ collected = [i \in 1..NPapers |-> NPapers + 1 - i]
    /\ outcome[1] = "false"
    /\ outcome[NPapers] = "true"
    /\ stats.papers_attempted = NPapers

\* C9: no download of a paper is started while its metadata.json and its
\* references.json have not been written successfully.
C9_PersistedBeforeDownload ==
    \A p \in Papers :
        downloading[p] => metadata_json[p] = "written" /\ references_json[p] = "written"

\* C10: a timeout or a failure of the concurrent metadata fetch leads to
\* exactly one synchronous retry, which is given the venue of the reference
\* fetch; the metadata fetch is called at most twice per paper; the paper
\* fails only when the retry too yields no metadata.
C10_OneRetry ==
    \A p \in Papers :
        /\ metaCalls[p] <= 2
        /\ ppc[p] = "reconcile" =>
              /\ firstFetch[p] \in {"timeout", "None"} <=> metaCalls[p] = 2
              /\ firstFetch[p] = "meta" <=> metaCalls[p] = 1
              /\ metaCalls[p] = 2 => retryOverride[p] = venue_from_refs[p]
              /\ metaCalls[p] = 1 => retryOverride[p] = "unset"
        /\ (ppc[p] = "exit" /\ raised[p] = "TypeError") =>
              metaCalls[p] = 2 /\ meta_result[p] = "None"
        /\ (ppc[p] = "exit" /\ meta_result[p] = "meta") => raised[p] # "TypeError"
        /\ (ppc[p] = "exit" /\ meta_result[p] = "None") => raised[p] = "TypeError"
        /\ outcome[p] = "false" => raised[p] # "none"

\* the wait on the metadata future timed out, the reference fetch had given
\* a venue, and the retry, called with that venue, brought metadata
C10_Witness ==
    \E p \in Papers :
        /\ ppc[p] = "reconcile"
        /\ firstFetch[p] = "timeout"
        /\ venue_from_refs[p] = "venue"
        /\ retryOverride[p] = "venue"
        /\ metaCalls[p] = 2
        /\ meta_result[p] = "meta"

\* the papers whose wait on the reference future ended in a timeout or in
\* the exception of the task
RefsFailed == {p \in Papers : refsWait[p] \in {"timeout", "raised"}}

\* C11: a timeout or an error of the reference fetch is not fatal: the
\* paper goes on with an empty mapping and no venue from the references and
\* raises nothing because of it (it raises only when it has no metadata);
\* with metadata it saves metadata.json and then the empty references; and
\* every paper that has saved them and meets no failure of the filesystem
\* runs the downloads and returns success.
C11_RefsFailureNotFatal ==
    \A p \in Papers :
        /\ p \in RefsFailed =>
              /\ references[p] = "empty"
              /\ ppc[p] \in {"join_meta", "retry", "reconcile", "save_meta", "save_refs", "exit"}
              /\ ppc[p] \in {"join_meta", "retry", "reconcile"} => venue_from_refs[p] = "none"
              /\ ppc[p] = "save_refs" => metadata_json[p] # "absent"
              /\ ppc[p] # "exit" => raised[p] = "none"
              /\ ppc[p] = "exit" => raised[p] = "TypeError" /\ meta_result[p] = "None"
        /\ ppc[p] \in {"save_meta", "save_refs", "download"} =>
              raised[p] = "none" /\ meta_result[p] = "meta"
        /\ (ppc[p] \in {"exit", "returned"} /\ raised[p] = "none") =>
              /\ metadata_json[p] # "absent"
              /\ references_json[p] # "absent"
              /\ downloading[p]
        /\ (ppc[p] = "returned" /\ raised[p] = "none") => outcome[p] = "true"

\* the wait on the reference future timed out, metadata was obtained and
\* saved, and the paper is about to save the empty references
C11_Witness ==
    \E p \in Papers :
        /\ refsWait[p] = "timeout"
        /\ ppc[p] = "save_refs"
        /\ meta_result[p] = "meta"
        /\ metadata_json[p] = "written"
        /\ references[p] = "empty"
        /\ raised[p] = "none"

\* the tasks that are between the saving of metadata.json and the end of
\* the downloads
Writing == {p \in Papers : ppc[p] \in {"save_meta", "save_refs", "download"}}

\* C14: whatever the list of ids, no two paper tasks that run at the same
\* time write the files of the same paper directory.
C14_OneWriterPerDirectory ==
    \A p, q \in Writing : paper_dir(p) = paper_dir(q) => p = q

\* C12: a paper whose metadata was obtained (it reached the saving of
\* metadata.json) is counted successful, whatever the number of revisions
\* downloaded; a paper is counted failed only for lack of metadata after
\* the retry or for an exception raised before the saving.
C12_FailsOnlyWithoutMetadata ==
    \A p \in Papers :
        /\ (ppc[p] = "returned" /\ metadata_json[p] # "absent") => outcome[p] = "true"
        /\ outcome[p] = "false" =>
              \/ raised[p] = "TypeError"
              \/ raised[p] # "none" /\ metadata_json[p] = "absent"

\* -------------------------------------------------------- discovery, checked

\* the largest k with 1..k inside S
MaxPrefix(S) == CHOOSE k \in 0..max_v : (\A i \in 1..k : i \in S) /\ (k + 1) \notin S

\* C8: whatever the order in which the probes complete, discover_versions
\* returns the maximal gap-free prefix 1..k of the set of confirmed
\* revisions; when that prefix is empty it returns <<1>> if the separate
\* re-check of revision 1 succeeds and the empty list otherwise.
C8_MaximalPrefix ==
    dvpc = "done" =>
        LET k == MaxPrefix(Range(results))
        IN IF k > 0
           THEN ret = [i \in 1..k |-> i] /\ recheck = "none"
           ELSE \/ recheck = "true" /\ ret = <<1>>
                \/ recheck = "false" /\ ret = <<>>

\* the probes confirmed 1, 2 and 4 and not 3, and <<1, 2>> came back
C8_Witness ==
    /\ dvpc = "done"
    /\ Range(results) = {1, 2, 4}
    /\ ret = <<1, 2>>

\* the probes confirmed 2 and 3 only and the re-check of 1 succeeded
C8_WitnessRecheck ==
    /\ dvpc = "done"
    /\ Range(results) = {2, 3}
    /\ ret = <<1>>

\* ------------------------------------------------------- downloads, checked

\* the revisions that were both downloaded and extracted
Extracted == {v \in Versions : vCase[v] = "extracted"}

\* C13: _download_versions_concurrently returns the number of revisions
\* that were both downloaded and extracted, whatever happened to the others
\* and in whatever order the tasks completed; while it runs, its count is
\* that number among the futures already taken; the result lies in
\* 0..NVersions.
C13_CountsExtracted ==
    /\ dlCount = Cardinality(Extracted \cap Range(vOrder))
    /\ dlpc = "returned" =>
          /\ dlRet = Cardinality(Extracted)
          /\ dlRet \in 0..NVersions

\* the last revision completed first; one revision raised, one had a bad
\* archive, and the one extracted was counted
C13_Witness ==
    /\ dlpc = "returned"
    /\ vOrder[1] = NVersions
    /\ \E v \in Versions : vCase[v] = "exception"
    /\ \E v \in Versions : vCase[v] = "bad_archive"
    /\ dlRet = 1

\* ------------------------------------------------------------- ids, checked

\* C19: format_yymm_id is idempotent on every id the validator accepts,
\* given with or without "arXiv:", a subject class or a revision suffix:
\* applied twice it gives what it gives applied once, and the id with and
\* without its revision suffix have the same dash form.
C19_FormatIdempotent ==
    /\ idpc \in {"twice", "done"} => twice = once
    /\ idpc = "done" => bareOnce = once

\* -------------------------------------------------- _ss_get_cached, checked

\* the calls that have ended, or were not made
SSEnded == {c \in SSCalls : cpc[c] \in {"done", "skipped"}}

\* C15: for one paper (reference fetch, metadata fetch and its retry) a
\* single request is sent to the citation-graph service.
C15_OneRequestPerPaper ==
    ({"refs", "meta"} \subseteq SSEnded /\ cpc["retry"] \in {"idle", "done", "skipped"}) =>
        sends["refs"] + sends["meta"] + sends["retry"] = 1

\* C16: a request answered 429 is not sent again within the call, the call
\* then counts one rate-limit hit and returns no data; and every request
\* sent follows a wait_if_needed of its own.
C16_RateLimitHit ==
    /\ \A c \in SSCalls : sends[c] <= waits[c]
    /\ \A c \in SSCalls : (saw429[c] /\ cpc[c] \in {"l204", "l205", "l216"}) => sends[c] = 1
    /\ (\A c \in SSCalls : cpc[c] \in {"idle", "done", "skipped"}) =>
          /\ stats.ss_rate_limit_hits = Cardinality({c \in SSCalls : saw429[c]})
          /\ \A c \in SSCalls : saw429[c] => cres[c] = "None"

\* ------------------------------------------ the reference fetch, checked

\* C17: the reference fetch does not raise, whatever _ss_get_cached gives
\* it, and for None or an empty object it returns ({}, None).
C17_FetchNeverRaises ==
    /\ frpc # "raised"
    /\ (frpc = "returned" /\ frData.kind \in {"None", "empty"}) =>
          (frReferences = <<>> /\ frVenue = "None")

\* the raw references that are objects with an id that passes validation
\* and a title
Kept ==
    {i \in 1..Len(frData.refs) :
        /\ frData.refs[i].isdict
        /\ frData.refs[i].externalIds.ArXiv # <<>>
        /\ is_valid_arxiv_id(frData.refs[i].externalIds.ArXiv)
        /\ frData.refs[i].title # ""}

\* C18: the keys of the returned mapping are the dash forms of the ids of
\* the raw references that have an id passing validation and a non-empty
\* title; a reference without id or without title gives no entry.
C18_MappingKeys ==
    (frpc = "returned" /\ frData.kind = "object") =>
        DOMAIN frReferences = {format_yymm_id(frData.refs[i].externalIds.ArXiv) : i \in Kept}

\* two references, one with a valid id and a title and one without an id,
\* have given one entry
C18_Witness ==
    /\ frpc = "returned"
    /\ Len(frData.refs) = 2
    /\ frData.refs[1] = Reference(<<"2504", ".", "13946">>, "T")
    /\ frData.refs[2] = Reference(<<>>, "T")
    /\ DOMAIN frReferences = {<<"2504", "-", "13946">>}

\* ------------------------------------------------- termination, checked

\* C20: the report is emitted, once, and not before every submitted paper
\* task has ended as Done or Failed; so every paper task does come to its
\* end, whether or not a wait on the reference or the metadata future has
\* timed out on the way.
C20_Termination ==
    /\ <>(reported = 1)
    /\ [](reported \in {0, 1})
    /\ [](reported = 1 =>
            \A p \in Papers : /\ ppc[p] = "returned"
                              /\ outcome[p] \in {"true", "false"}
                              /\ p \in Range(collected))

\* the report has been emitted after one task failed and another succeeded
C20_Witness ==
    /\ reported = 1
    /\ \A p \in Papers : ppc[p] = "returned"
    /\ \E p, q \in Papers : outcome[p] = "true" /\ outcome[q] = "false"

\* ---------------------------------------- the batch, checked further

\* C22: a paper without metadata after the retry fails without a trace in
\* its record: no artifact is written and no download started, the saving
\* and downloading statements are only reached with metadata, and the batch
\* runner gets a failed outcome, which it counts.
C22_FailsWithoutSideEffects ==
    \A p \in Papers :
        /\ ppc[p] \in {"save_meta", "save_refs", "download"} => meta_result[p] = "meta"
        /\ raised[p] = "TypeError" =>
              /\ metadata_json[p] = "absent"
              /\ references_json[p] = "absent"
              /\ ~downloading[p]
              /\ ppc[p] \in {"exit", "returned"}
              /\ ppc[p] = "returned" => outcome[p] = "false"
              /\ p \in Range(collected) =>
                    stats.papers_failed >= Cardinality(HardFailed \cap Range(collected))

\* a paper without metadata after the retry has been counted as failed
C22_Witness ==
    \E p \in Papers :
        /\ raised[p] = "TypeError"
        /\ p \in Range(collected)
        /\ outcome[p] = "false"
        /\ stats.papers_failed >= 1
        /\ metadata_json[p] = "absent"

\* C28: the synchronous retry of the metadata fetch is not made while the
\* submitted metadata task of the same paper is still running.
C28_OneFetchInFlight ==
    \A p \in Papers : metaCalls[p] = 2 => metaTask[p] # "running"

\* ------------------------------------------ the downloads, checked further

\* C26: when _download_versions_concurrently has returned, no archive file
\* is left at the tar_path of any revision, whatever happened to it.
C26_NoArchiveLeft ==
    dlpc = "returned" => \A v \in Versions : tarFile[v] = "absent"

\* ------------------------------- metadata and versions together, checked

\* C23: an invocation of the metadata fetch that returns metadata returns
\* with it a version list that is not empty and is the run 1..k (what the
\* discovery returned, or <<1>> when it returned nothing); and the versions
\* handed to the downloader of a persisted paper contain revision 1 and are
\* those returned by the invocation whose metadata was persisted.
C23_VersionsOfTheSameFetch ==
    /\ \A c \in Invocations :
          FetchResult(c).metadata # 0 =>
              /\ FetchResult(c).versions_info # <<>>
              /\ FetchResult(c).versions_info =
                     [i \in 1..Len(FetchResult(c).versions_info) |-> i]
              /\ discovered[c] # <<>> => FetchResult(c).versions_info = discovered[c]
    /\ (fpc = "downloaded" /\ persisted_meta # 0) =>
          /\ downloaded_versions # <<>>
          /\ downloaded_versions[1] = 1
          /\ downloaded_versions = FetchResult(persisted_meta).versions_info

\* the wait on the submitted fetch timed out, the discovery of the retry
\* returned nothing, and revision 1 alone was handed to the downloader with
\* the metadata of the retry persisted
C23_Witness ==
    /\ fpc = "downloaded"
    /\ persisted_meta = 2
    /\ found[1]
    /\ discovered[1] = <<1, 2>>
    /\ discovered[2] = <<>>
    /\ downloaded_versions = <<1>>

\* ------------------------------------- the reference fetch, checked further

\* the last raw reference with the dash form key among those that are kept
LastKept(key) ==
    MaxOf({i \in Kept : format_yymm_id(frData.refs[i].externalIds.ArXiv) = key})

\* C24: of several raw references with the same dash form and a title the
\* mapping holds the record of the last one; a later one without title
\* leaves the earlier record in place.
C24_LastWriteWins ==
    (frpc = "returned" /\ frData.kind = "object") =>
        \A key \in DOMAIN frReferences :
            frReferences[key].paper_title = frData.refs[LastKept(key)].title

\* two references to one paper, with and without revision suffix and with
\* different titles, have given the record of the second
C24_Witness ==
    /\ frpc = "returned"
    /\ frData.refs = <<Reference(<<"2504", ".", "13946">>, "T"),
                       Reference(<<"2504", ".", "13946", "v", "2">>, "U")>>
    /\ frReferences = (<<"2504", "-", "13946">> :> [paper_title |-> "U"])

\* --------------------------------------------- the id extraction, checked

\* the key spellings in the order of their priority
Priority == <<"ArXiv", "arXiv", "arxiv", "ARXIV">>

\* the places in Priority of the keys that hold a value
Holding == {i \in 1..Len(Priority) : exRef.externalIds[Priority[i]] # <<>>}

MinOf(S) == CHOOSE m \in S : \A x \in S : m <= x

\* C25: the id extracted is the value of the first key spelling, in the
\* order of priority, that holds one; the url is used only when no key
\* holds a value; and the reference goes on only when the one id extracted
\* passes validation.
C25_FirstStrategyWins ==
    (expc = "done" /\ exRef.isdict) =>
        /\ Holding # {} => arxiv_ref_id = exRef.externalIds[Priority[MinOf(Holding)]]
        /\ Holding = {} => arxiv_ref_id = UrlMatch(exRef.url)
        /\ (arxiv_ref_id # UrlMatch(exRef.url)) => Holding # {}
        /\ exKept <=> (arxiv_ref_id # <<>> /\ is_valid_arxiv_id(arxiv_ref_id))

\* the first spelling holds nothing, the second a valid id, the third an
\* invalid one and the url another valid one: the id of the second was taken
C25_Witness ==
    /\ expc = "done"
    /\ exRef.externalIds.ArXiv = <<>>
    /\ exRef.externalIds.arXiv = <<"2504", ".", "13946">>
    /\ exRef.externalIds.arxiv = <<"arXiv:", "2504", ".", "13946">>
    /\ exRef.url = <<"arxiv.org/abs/", "9912", ".", "0001", "v", "1">>
    /\ arxiv_ref_id = <<"2504", ".", "13946">>
    /\ exKept

\* ------------------------------------------------------ the venue, checked

\* C21: when the reference fetch gave a venue, the venue persisted is that
\* venue, whatever the metadata fetch found; when it gave none, the venue
\* persisted is that of the metadata fetch, and is a string.
C21_VenueReconciled ==
    vnpc = "saved" =>
        /\ paper_venue # NoText => publication_venue = paper_venue
        /\ paper_venue = NoText => publication_venue = meta_venue
        /\ publication_venue # NoText

\* the reference fetch gave one venue, the metadata fetch found another, and
\* the one of the reference fetch was persisted
C21_Witness ==
    /\ vnpc = "saved"
    /\ paper_venue = <<"NeurIPS">>
    /\ meta_venue = <<"ICML">>
    /\ publication_venue = <<"NeurIPS">>

\* C27: on the same response the metadata fetch without override resolves
\* the venue the reference fetch extracts (the name of publicationVenue when
\* not blank, else the plain venue when not blank), and the journal
\* reference only when both are blank.
C27_SameVenue ==
    (vnpc \in {"reconcile", "saved"} /\ venue_override = NoText /\ metaData = refsData
       /\ metaData.kind = "object") =>
        IF PaperVenue(refsData) # NoText
        THEN meta_venue = PaperVenue(refsData)
        ELSE meta_venue = (IF journal_ref = NoText THEN <<>> ELSE Strip(journal_ref))

====
